---- MODULE Spec2Model ----
(***************************************************************************)
(* Model of bittensor/synapses/gpt2/model.py: construction of             *)
(* GPT2LMConfig / GPT2LMSynapse and the routing-and-distillation forward  *)
(* pass GPT2LMSynapse.forward / forward_text.                             *)
(*                                                                         *)
(* Tensors are abstracted to integers; the learned layers are fixed       *)
(* integer functions that keep the data flow of the source (which value   *)
(* is fed to which layer).  A Python local is a record whose field st     *)
(* tells whether the name is unbound, bound to None, or bound to a value. *)
(***************************************************************************)
EXTENDS Integers, Sequences, FiniteSets, TLC

\* ---------------------------------------------------------------- bounds
MaxPeers == 11
MaxToken == 1
MaxDim == 2

Inputs == 0..MaxToken
Dims == 1..MaxDim

\* ------------------------------------------------------- program constants
\* bittensor.Router(..., topk=10)
TopK == 10
\* bittensor.__network_dim__ and bittensor.__vocab_size__ (process-wide)
network_dim == 1
vocab_size == 2

\* ------------------------------------------------------ Python name states
Unbound == [st |-> "unbound", v |-> 0]
None == [st |-> "none", v |-> 0]
Val(x) == [st |-> "val", v |-> x]
UnboundSet == [st |-> "unbound", v |-> {}]
ValSet(s) == [st |-> "val", v |-> s]
UnboundMap == [st |-> "unbound", v |-> <<>>]
ValMap(f) == [st |-> "val", v |-> f]

IsBound(x) == x.st # "unbound"
IsVal(x) == x.st = "val"
\* value of a loss term that may be None: a term that is not computed adds 0
TermValue(x) == IF x.st = "val" THEN x.v ELSE 0

Min(a, b) == IF a < b THEN a ELSE b
Abs(a) == IF a < 0 THEN 0 - a ELSE a

RECURSIVE SumOver(_, _)
SumOver(S, f) ==
    IF S = {} THEN 0
    ELSE LET p == CHOOSE q \in S : TRUE
         IN  f[p] + SumOver(S \ {p}, f)

\* ---------------------------------------------------------- learned layers
encoder_transformer(x) == x + 1
pooler(e) == e % 2
context_transformer(x) == 2 * x
\* Linear(2 * dim, dim) applied to cat([base, context], dim=2)
hidden_layer(base, context) == 3 * base + context
target_layer(h) == 2 * h
\* CrossEntropyLoss of the shifted logits against the shifted input tokens
loss_fct(logits, labels) == Abs(logits - labels)
mse_loss(a, b) == (a - b) * (a - b)

\* --------------------------------------------------- router and transport
\* relevance score of a peer for a pooled summary
Score(p, pooled) == ((p * (pooled + 2)) % 5) + 1
Better(p, q, pooled) ==
    \/ Score(p, pooled) > Score(q, pooled)
    \/ Score(p, pooled) = Score(q, pooled) /\ p < q
\* top-K selection, K clamped to the number of peers
Select(peers, pooled) ==
    LET k == Min(TopK, Cardinality(peers))
    IN  {p \in peers : Cardinality({q \in peers : Better(q, p, pooled)}) < k}
\* router.route: one request per peer of the snapshot, empty for the
\* peers that were not selected
route(peers, pooled, inputs) ==
    [p \in peers |-> IF p \in Select(peers, pooled) THEN Val(inputs) ELSE None]
\* the peers a dendrite call sends a request to
dendrite_targets(peers, requests) ==
    {p \in peers : requests[p].st = "val"}
\* what a peer answers
PeerResponse(p, tokens) == p + tokens
\* router.join: score-weighted mean over the peers that responded
join(responses, pooled) ==
    LET R == DOMAIN responses
        num == SumOver(R, [p \in R |-> Score(p, pooled) * responses[p]])
        den == SumOver(R, [p \in R |-> Score(p, pooled)])
    IN  num \div den

\* ------------------------------------------------------------------ state
VARIABLES
    config,     \* the GPT2LMConfig object under construction, until a synapse takes it
    synapse,    \* the GPT2LMSynapse object
    query,      \* binding of the module-level name `query`
    metagraph,  \* bittensor.metagraph: the peers currently in the directory
    pc,         \* position of the caller / of forward
    entry,      \* entry point of the call in progress
    args,       \* arguments of the call in progress
    locals,     \* local names of forward
    io,         \* directory reads and network requests made by the call
    order,      \* the loss terms in the order they were added to loss
    result,     \* the dictionary returned by forward
    returned,   \* the value returned by forward_text
    exc         \* the exception that ended the call

vars == <<config, synapse, query, metagraph, pc, entry, args, locals, io,
          order, result, returned, exc>>

NoAttr == [kind |-> "unset", n_embd |-> 0, vocab_size |-> 0]
NoConfig == [made |-> FALSE, kwarg |-> NoAttr, huggingface_config |-> NoAttr,
             exc |-> "none"]
NoSynapse == [built |-> FALSE, config |-> NoAttr, topk |-> 0]
NoArgs == [inputs |-> 0, training |-> FALSE, remote |-> FALSE]
NoIO == [snapshot |-> FALSE, routed |-> FALSE, dispatched |-> FALSE,
         sent |-> {}, joined |-> FALSE]
NoResult == [loss |-> Unbound, local_hidden |-> Unbound,
             local_target |-> Unbound, local_target_loss |-> Unbound,
             remote_hidden |-> Unbound, remote_target |-> Unbound,
             remote_target_loss |-> Unbound, distillation_loss |-> Unbound]
NoLocals ==
    [loss |-> Unbound, local_output |-> Unbound, network_output |-> Unbound,
     network_target_loss |-> Unbound, local_target_loss |-> Unbound,
     distillation_loss |-> Unbound, encoding |-> Unbound, pooled |-> Unbound,
     synapses |-> UnboundSet, requests |-> UnboundMap,
     responses |-> UnboundMap, remote_context |-> Unbound,
     local_context |-> Unbound, local_hidden |-> Unbound,
     local_target |-> Unbound, remote_hidden |-> Unbound,
     remote_target |-> Unbound, remote_target_loss |-> Unbound]

Peers(n) == 1..n
QueryBindings == {"unbound", "true", "false"}

\* transformers.GPT2Config(vocab_size=..., n_embd=...) built from the globals
default_huggingface_config ==
    [kind |-> "GPT2Config", n_embd |-> network_dim, vocab_size |-> vocab_size]
\* the objects a caller can pass as huggingface_config
HuggingfaceConfigs ==
    [kind : {"GPT2Config"}, n_embd : Dims, vocab_size : Dims]
        \cup {[kind |-> "other", n_embd |-> 0, vocab_size |-> 0]}

Init ==
    /\ config = NoConfig
    /\ synapse = NoSynapse
    /\ query \in QueryBindings
    /\ metagraph \in {Peers(n) : n \in 0..MaxPeers}
    /\ pc = "boot"
    /\ entry = "none"
    /\ args = NoArgs
    /\ locals = NoLocals
    /\ io = NoIO
    /\ order = <<>>
    /\ result = NoResult
    /\ returned = Unbound
    /\ exc = "none"

\* ----------------------------------------------------------- construction
\* GPT2LMConfig.run_type_checks: the three assertions
run_type_checks(hf) ==
    /\ hf.kind = "GPT2Config"
    /\ hf.n_embd = network_dim
    /\ hf.vocab_size = vocab_size

\* GPT2LMConfig.__init__: the attribute is stored, then it is checked
ConfigAfterInit(hf) ==
    [made |-> TRUE,
     kwarg |-> hf,
     huggingface_config |-> hf,
     exc |-> IF run_type_checks(hf) THEN "none" ELSE "AssertionError"]

GPT2LMConfig_init ==
    /\ pc = "boot"
    /\ \E hf \in HuggingfaceConfigs \cup {default_huggingface_config} :
          config' = ConfigAfterInit(hf)
    /\ UNCHANGED <<synapse, query, metagraph, pc, entry, args, locals, io,
                   order, result, returned, exc>>

\* GPT2LMSynapse.__init__ with config=None (GPT2LMConfig() is built inside)
\* or with a config object whose construction succeeded; the synapse keeps
\* the configuration, and no configuration is under construction any more
GPT2LMSynapse_init ==
    /\ pc = "boot"
    /\ \E given \in BOOLEAN :
          /\ given => (config.made /\ config.exc = "none")
          /\ synapse' = [built |-> TRUE,
                         config |-> IF given THEN config.huggingface_config
                                    ELSE ConfigAfterInit(default_huggingface_config).huggingface_config,
                         topk |-> TopK]
    /\ config' = NoConfig
    /\ pc' = "idle"
    /\ UNCHANGED <<query, metagraph, entry, args, locals, io, order, result,
                   returned, exc>>

\* ------------------------------------------------------------ environment
\* the peer directory changes between calls
MetagraphUpdate ==
    /\ pc = "idle"
    /\ \E n \in 0..MaxPeers :
          /\ Peers(n) # metagraph
          /\ metagraph' = Peers(n)
    /\ UNCHANGED <<config, synapse, query, pc, entry, args, locals, io, order,
                   result, returned, exc>>

\* ---------------------------------------------------------------- forward
\* loss = term: the term replaces the running total
AddLossOverwrite(loss, term) == term

\* loss = loss + term
AddLoss(loss, term) == loss + term

\* the local target block placed before the distillation block
SuccessorTaskFirst(p) ==
    CASE p = "join" -> "fuse_local"
      [] p = "fuse_local" -> "local_context"
      [] p = "local_context" -> "fuse_remote"
      [] p = "fuse_remote" -> "return"

\* the straight-line order of the blocks of forward
Successor(p) ==
    CASE p = "join" -> "local_context"
      [] p = "local_context" -> "fuse_local"
      [] p = "fuse_local" -> "fuse_remote"
      [] p = "fuse_remote" -> "return"

\* names bound before the `if query:` test
LocalsAtEntry(x) ==
    [NoLocals EXCEPT !.loss = Val(0),
                     !.local_output = None,
                     !.network_output = None,
                     !.network_target_loss = None,
                     !.local_target_loss = None,
                     !.distillation_loss = None,
                     !.encoding = Val(encoder_transformer(x)),
                     !.pooled = Val(pooler(encoder_transformer(x)))]

Enter(e, x, t, r) ==
    /\ pc = "idle"
    /\ entry' = e
    /\ args' = [inputs |-> x, training |-> t, remote |-> r]
    /\ locals' = LocalsAtEntry(x)
    /\ io' = NoIO
    /\ order' = <<>>
    /\ result' = NoResult
    /\ returned' = Unbound
    /\ exc' = "none"
    /\ pc' = "check_query"
    /\ UNCHANGED <<config, synapse, query, metagraph>>

Forward == \E x \in Inputs, t \in BOOLEAN, r \in BOOLEAN : Enter("forward", x, t, r)

\* forward_text: forward(inputs, training=False, remote=False)['local_hidden']
ForwardText == \E x \in Inputs : Enter("forward_text", x, FALSE, FALSE)

Raise(e) ==
    /\ pc' = "raised"
    /\ exc' = e

\* `if query:` with the name not bound
CheckQueryUnbound ==
    /\ pc = "check_query"
    /\ query = "unbound"
    /\ Raise("NameError: query")
    /\ UNCHANGED <<config, synapse, query, metagraph, entry, args, locals, io,
                   order, result, returned>>

\* `if query:` with the name bound
CheckQuery ==
    /\ pc = "check_query"
    /\ query # "unbound"
    /\ pc' = IF query = "true" THEN "snapshot" ELSE "local_context"
    /\ UNCHANGED <<config, synapse, query, metagraph, entry, args, locals, io,
                   order, result, returned, exc>>

\* synapses = bittensor.metagraph.synapses()
Snapshot ==
    /\ pc = "snapshot"
    /\ locals' = [locals EXCEPT !.synapses = ValSet(metagraph)]
    /\ io' = [io EXCEPT !.snapshot = TRUE]
    /\ pc' = "route"
    /\ UNCHANGED <<config, synapse, query, metagraph, entry, args, order,
                   result, returned, exc>>

\* requests, _ = self.router.route(synapses, pooled, inputs)
Route ==
    /\ pc = "route"
    /\ locals' = [locals EXCEPT !.requests =
                     ValMap(route(locals.synapses.v, locals.pooled.v, args.inputs))]
    /\ io' = [io EXCEPT !.routed = TRUE]
    /\ pc' = "dispatch"
    /\ UNCHANGED <<config, synapse, query, metagraph, entry, args, order,
                   result, returned, exc>>

\* every peer of the snapshot is queried, whatever the router selected
DispatchCallBroadcast(synapses, requests) == synapses

\* the peers that bittensor.dendrite.forward_text(synapses, requests) queries
DispatchCall(synapses, requests) == dendrite_targets(synapses, requests)

\* responses = bittensor.dendrite.forward_text(synapses, requests)
\* any subset of the queried peers answers, the others time out or fail
Dispatch ==
    /\ pc = "dispatch"
    /\ LET targets == DispatchCall(locals.synapses.v, locals.requests.v)
       IN  /\ io' = [io EXCEPT !.dispatched = TRUE, !.sent = targets]
           /\ \E R \in SUBSET targets :
                 locals' = [locals EXCEPT !.responses =
                     ValMap([p \in R |-> PeerResponse(p, args.inputs)])]
    /\ pc' = "join"
    /\ UNCHANGED <<config, synapse, query, metagraph, entry, args, order,
                   result, returned, exc>>

\* remote_context = self.router.join(responses), no peer responded
JoinNoResponse ==
    /\ pc = "join"
    /\ DOMAIN locals.responses.v = {}
    /\ Raise("NoPeerResponseError")
    /\ UNCHANGED <<config, synapse, query, metagraph, entry, args, locals, io,
                   order, result, returned>>

\* remote_context = self.router.join(responses)
Join ==
    /\ pc = "join"
    /\ DOMAIN locals.responses.v # {}
    /\ locals' = [locals EXCEPT !.remote_context =
                     Val(join(locals.responses.v, locals.pooled.v))]
    /\ io' = [io EXCEPT !.joined = TRUE]
    /\ pc' = Successor("join")
    /\ UNCHANGED <<config, synapse, query, metagraph, entry, args, order,
                   result, returned, exc>>

\* local_context = ...; `if remote:` reads remote_context, which is unbound
LocalContextUnbound ==
    /\ pc = "local_context"
    /\ args.remote
    /\ ~IsBound(locals.remote_context)
    /\ locals' = [locals EXCEPT !.local_context =
                     Val(context_transformer(args.inputs))]
    /\ Raise("UnboundLocalError: remote_context")
    /\ UNCHANGED <<config, synapse, query, metagraph, entry, args, io, order,
                   result, returned>>

\* local_context = ...; if remote: distillation_loss = ...; loss = loss + it
LocalContext ==
    /\ pc = "local_context"
    /\ args.remote => IsBound(locals.remote_context)
    /\ LET lc == context_transformer(args.inputs)
           dl == mse_loss(lc, locals.remote_context.v)
       IN  IF args.remote
           THEN /\ locals' = [locals EXCEPT !.local_context = Val(lc),
                                            !.distillation_loss = Val(dl),
                                            !.loss = Val(AddLoss(locals.loss.v, dl))]
                /\ order' = Append(order, "distillation")
           ELSE /\ locals' = [locals EXCEPT !.local_context = Val(lc)]
                /\ order' = order
    /\ pc' = Successor("local_context")
    /\ UNCHANGED <<config, synapse, query, metagraph, entry, args, io, result,
                   returned, exc>>

\* local_hidden = ...; if training: local_target, local_target_loss, loss
FuseLocal ==
    /\ pc = "fuse_local"
    /\ LET lh == hidden_layer(locals.encoding.v, locals.local_context.v)
           lt == target_layer(lh)
           ll == loss_fct(lt, args.inputs)
       IN  IF args.training
           THEN /\ locals' = [locals EXCEPT !.local_hidden = Val(lh),
                                            !.local_target = Val(lt),
                                            !.local_target_loss = Val(ll),
                                            !.loss = Val(AddLoss(locals.loss.v, ll))]
                /\ order' = Append(order, "local")
           ELSE /\ locals' = [locals EXCEPT !.local_hidden = Val(lh)]
                /\ order' = order
    /\ pc' = Successor("fuse_local")
    /\ UNCHANGED <<config, synapse, query, metagraph, entry, args, io, result,
                   returned, exc>>

\* the hidden state that the remote target is projected from
RemoteTargetInput(local_hidden, remote_hidden) == local_hidden

\* if remote: remote_hidden = ...; if training: remote_target, ..., loss
FuseRemote ==
    /\ pc = "fuse_remote"
    /\ LET rh == hidden_layer(locals.encoding.v, locals.remote_context.v)
           rt == target_layer(RemoteTargetInput(locals.local_hidden.v, rh))
           rl == loss_fct(rt, args.inputs)
       IN  IF args.remote /\ args.training
           THEN /\ locals' = [locals EXCEPT !.remote_hidden = Val(rh),
                                            !.remote_target = Val(rt),
                                            !.remote_target_loss = Val(rl),
                                            !.loss = Val(AddLoss(locals.loss.v, rl))]
                /\ order' = Append(order, "remote")
           ELSE IF args.remote
           THEN /\ locals' = [locals EXCEPT !.remote_hidden = Val(rh)]
                /\ order' = order
           ELSE /\ locals' = locals
                /\ order' = order
    /\ pc' = Successor("fuse_remote")
    /\ UNCHANGED <<config, synapse, query, metagraph, entry, args, io, result,
                   returned, exc>>

\* the names the return statement reads, in the order it reads them
ReturnReads ==
    <<"loss", "local_hidden", "local_target", "local_target_loss",
      "remote_hidden", "remote_target", "remote_target_loss",
      "distillation_loss">>

FirstUnbound ==
    LET bad == {i \in 1..Len(ReturnReads) : ~IsBound(locals[ReturnReads[i]])}
    IN  IF bad = {} THEN 0 ELSE CHOOSE i \in bad : \A j \in bad : i <= j

\* return {...}: one of the names was never assigned
ReturnUnbound ==
    /\ pc = "return"
    /\ FirstUnbound # 0
    /\ Raise("UnboundLocalError: " \o ReturnReads[FirstUnbound])
    /\ UNCHANGED <<config, synapse, query, metagraph, entry, args, locals, io,
                   order, result, returned>>

\* return {...}
Return ==
    /\ pc = "return"
    /\ FirstUnbound = 0
    /\ result' = [loss |-> locals.loss,
                  local_hidden |-> locals.local_hidden,
                  local_target |-> locals.local_target,
                  local_target_loss |-> locals.local_target_loss,
                  remote_hidden |-> locals.remote_hidden,
                  remote_target |-> locals.remote_target,
                  remote_target_loss |-> locals.remote_target_loss,
                  distillation_loss |-> locals.distillation_loss]
    /\ returned' = IF entry = "forward_text" THEN locals.local_hidden ELSE Unbound
    /\ pc' = "done"
    /\ UNCHANGED <<config, synapse, query, metagraph, entry, args, locals, io,
                   order, exc>>

\* the caller takes the result or the exception; nothing is kept for the
\* next call
Finish ==
    /\ pc \in {"done", "raised"}
    /\ pc' = "idle"
    /\ entry' = "none"
    /\ args' = NoArgs
    /\ locals' = NoLocals
    /\ io' = NoIO
    /\ order' = <<>>
    /\ result' = NoResult
    /\ returned' = Unbound
    /\ exc' = "none"
    /\ UNCHANGED <<config, synapse, query, metagraph>>

Next ==
    \/ GPT2LMConfig_init
    \/ GPT2LMSynapse_init
    \/ MetagraphUpdate
    \/ Forward
    \/ ForwardText
    \/ CheckQueryUnbound
    \/ CheckQuery
    \/ Snapshot
    \/ Route
    \/ Dispatch
    \/ JoinNoResponse
    \/ Join
    \/ LocalContextUnbound
    \/ LocalContext
    \/ FuseLocal
    \/ FuseRemote
    \/ ReturnUnbound
    \/ Return
    \/ Finish

Spec == Init /\ [][Next]_vars

TypeOK ==
    /\ pc \in {"boot", "idle", "check_query", "snapshot", "route", "dispatch",
               "join", "local_context", "fuse_local", "fuse_remote", "return",
               "done", "raised"}
    /\ query \in QueryBindings
    /\ entry \in {"none", "forward", "forward_text"}

\* ----------------------------------------------------------------- claims
Terminal == pc \in {"done", "raised"}
InCall == pc \notin {"boot", "idle"}
ZeroResponded == locals.responses.st = "val" /\ DOMAIN locals.responses.v = {}
RemoteSucceeded == io.joined
\* the name `query` is bound and agrees with the parameter remote, so that
\* the test of line 221 decides as `if remote:` would
GateAgrees == query = (IF args.remote THEN "true" ELSE "false")

LocalHiddenOf(x) ==
    hidden_layer(encoder_transformer(x), context_transformer(x))
\* the loss of the same call made with remote=False
LocalOnlyLoss(x, t) ==
    IF t THEN loss_fct(target_layer(LocalHiddenOf(x)), x) ELSE 0

\* C1: a forward call with remote=True to which zero peers respond still
\* completes, returns remote_hidden, remote_target_loss and
\* distillation_loss absent and loss equal to the local-only loss, and
\* raises nothing.
C1_ZeroPeersFallsBackToLocal ==
    (Terminal /\ args.remote /\ ZeroResponded) =>
        /\ pc = "done"
        /\ exc = "none"
        /\ result.remote_hidden = None
        /\ result.remote_target_loss = None
        /\ result.distillation_loss = None
        /\ result.loss = Val(LocalOnlyLoss(args.inputs, args.training))

\* C2: every call forward(tokens, training=False, remote=r) returns a
\* result in which local_target_loss and remote_target_loss are absent.
\* Stated for the calls in which `query` agrees with remote and some peer
\* responded, where neither the gate nor the router ends the call.
C2_NoTrainingNoTargetLoss ==
    (Terminal /\ entry = "forward" /\ ~args.training /\ GateAgrees
        /\ ~ZeroResponded) =>
        /\ pc = "done"
        /\ result.local_target_loss = None
        /\ result.remote_target_loss = None

\* C3: forward_text completes and returns the local hidden representation,
\* and during the call no peer-directory read, no router selection, no
\* dispatch and no loss term happens.  Stated for the calls in which
\* `query` agrees with remote (False in forward_text).
C3_ForwardTextIsLocal ==
    (entry = "forward_text" /\ GateAgrees) =>
        /\ ~io.snapshot /\ ~io.routed /\ ~io.dispatched /\ io.sent = {}
        /\ order = <<>>
        /\ Terminal =>
              /\ pc = "done"
              /\ returned = Val(LocalHiddenOf(args.inputs))

\* C4: the remote path runs if and only if the parameter remote is True,
\* so that every use of the remote context follows a remote path that
\* produced it in the same call.
C4_RemoteGatedByRemote ==
    /\ pc \in {"snapshot", "route", "dispatch", "join"} => args.remote
    /\ io.snapshot => args.remote
    /\ (pc \in {"local_context", "fuse_local", "fuse_remote", "return", "done"}
            /\ args.remote) => io.joined
    /\ exc # "UnboundLocalError: remote_context"

\* C5: the loss is the sum of exactly the terms that were computed: at
\* every point of a call loss equals the sum of the loss terms bound to a
\* value so far (a term that is None adds nothing, and with no term the
\* loss is 0), and the loss returned is local_target_loss when training,
\* plus remote_target_loss when training and the remote path succeeded,
\* plus distillation_loss when the remote path succeeded.
C5_LossIsSumOfComputedTerms ==
    /\ InCall =>
          locals.loss = Val(TermValue(locals.distillation_loss)
                            + TermValue(locals.local_target_loss)
                            + TermValue(locals.remote_target_loss))
    /\ pc = "done" =>
          /\ IsVal(result.local_target_loss) <=> args.training
          /\ IsVal(result.remote_target_loss) <=> (args.training /\ RemoteSucceeded)
          /\ IsVal(result.distillation_loss) <=> RemoteSucceeded
          /\ result.loss =
                Val((IF args.training THEN result.local_target_loss.v ELSE 0)
                    + (IF args.training /\ RemoteSucceeded
                       THEN result.remote_target_loss.v ELSE 0)
                    + (IF RemoteSucceeded THEN result.distillation_loss.v ELSE 0))

\* a call that returned a loss made of all three terms
C5_Witness ==
    /\ pc = "done"
    /\ IsVal(result.local_target_loss)
    /\ IsVal(result.remote_target_loss)
    /\ IsVal(result.distillation_loss)
    /\ result.distillation_loss.v > 0
    /\ result.loss.v > result.distillation_loss.v

ClaimedRank(n) ==
    CASE n = "local" -> 1 [] n = "remote" -> 2 [] n = "distillation" -> 3
CodeRank(n) ==
    CASE n = "distillation" -> 1 [] n = "local" -> 2 [] n = "remote" -> 3
AddedInOrder(rank(_)) ==
    \A i, j \in 1..Len(order) : i < j => rank(order[i]) < rank(order[j])
TermsComputed ==
    Cardinality({n \in {"distillation_loss", "local_target_loss",
                        "remote_target_loss"} : IsVal(locals[n])})

\* C6 as stated: within one call the terms are added to loss in the order
\* local task loss, remote task loss, distillation loss.
C6_LocalRemoteDistillation ==
    AddedInOrder(ClaimedRank)

\* C6 as amended: within one call the terms are added to loss in the fixed
\* order distillation loss, local task loss, remote task loss, each at most
\* once and exactly when it is computed.
C6_DistillationLocalRemote ==
    /\ AddedInOrder(CodeRank)
    /\ InCall => Len(order) = TermsComputed

\* a call that added all three terms
C6_Witness ==
    /\ pc = "done"
    /\ order = <<"distillation", "local", "remote">>

\* C7: for each combination of training and remote, forward returns, and
\* each optional field of the result holds a value exactly when its
\* computation was requested and succeeded, and None otherwise;
\* local_hidden and loss are always present.  Stated for the calls in
\* which `query` agrees with remote and some peer responded.
Holds(field, computed) ==
    IF computed THEN IsVal(field) ELSE field = None
C7_OptionalFieldsTracked ==
    (Terminal /\ entry = "forward" /\ GateAgrees /\ ~ZeroResponded) =>
        /\ pc = "done"
        /\ IsVal(result.loss)
        /\ IsVal(result.local_hidden)
        /\ Holds(result.local_target, args.training)
        /\ Holds(result.local_target_loss, args.training)
        /\ Holds(result.remote_hidden, args.remote /\ RemoteSucceeded)
        /\ Holds(result.remote_target,
                 args.training /\ args.remote /\ RemoteSucceeded)
        /\ Holds(result.remote_target_loss,
                 args.training /\ args.remote /\ RemoteSucceeded)
        /\ Holds(result.distillation_loss, args.remote /\ RemoteSucceeded)

\* C8: a construction with an embedding width or a vocabulary size that
\* differs from the network constants fails, and it fails before any
\* attribute of the object under construction is set.
Mismatch(hf) ==
    /\ hf.kind = "GPT2Config"
    /\ hf.n_embd # network_dim \/ hf.vocab_size # vocab_size
C8_NoPartialInitialization ==
    (config.made /\ Mismatch(config.kwarg)) =>
        /\ config.exc # "none"
        /\ config.huggingface_config = NoAttr

C10_RemoteTargetFromRemoteHidden ==
    IsVal(locals.remote_target) =>
        /\ locals.remote_target = Val(target_layer(locals.remote_hidden.v))
        /\ locals.remote_target_loss =
              Val(loss_fct(target_layer(locals.remote_hidden.v), args.inputs))
====
